---- MODULE Spec2Model ----
(***************************************************************************)
(* A model of scripts/capture_codex_fixture.py: the Sanitizer (stable      *)
(* pseudonymizer, field classifier, record sanitizer) and the transcoding  *)
(* loop of main() that reads session files line by line.                   *)
(*                                                                         *)
(* A Python str is a sequence of one-character strings, so that prefix,    *)
(* substring, regular-expression and case tests are computed on the        *)
(* characters as the code computes them.  A JSON value is a record         *)
(* [t, s, items]: t is "dict", "list", "str" or "scalar" (a number, true,  *)
(* false or null, kept by its literal text in s); items holds the members  *)
(* of a dict ([k, v], in insertion order) or the elements of a list        *)
(* ([k |-> <<>>, v]).                                                      *)
(***************************************************************************)
EXTENDS Integers, Sequences, FiniteSets, TLC

VARIABLES path_map, url_map, string_map, line_count_total, type_counts,
          files_in, files_out, pc, arg, ret, log, ncalls

vars == <<path_map, url_map, string_map, line_count_total, type_counts,
          files_in, files_out, pc, arg, ret, log, ncalls>>

\* ------------------------------------------------------------------ bounds

\* Lines read in one run of main(), over all its session files.
MaxLines == 3
\* Session files of one run.
MaxFiles == 2
\* Calls made on one Sanitizer through its methods (SpecSan).
MaxCalls == 2

\* ------------------------------------------------------- program constants

\* _hash(s, n=10): the digest length of a path or URL token.
HashLen == 10
\* sanitize_text: self._hash(value, 8).
TextHashLen == 8
\* len(value) <= 40 in the enum-like rule.
EnumMaxLen == 40

\* ----------------------------------------------------------------- str

Range(s) == {s[i] : i \in 1..Len(s)}

LowerLetters == <<"a","b","c","d","e","f","g","h","i","j","k","l","m","n","o","p","q","r","s","t","u","v","w","x","y","z">>
UpperLetters == <<"A","B","C","D","E","F","G","H","I","J","K","L","M","N","O","P","Q","R","S","T","U","V","W","X","Y","Z">>
Digits == <<"0","1","2","3","4","5","6","7","8","9">>
HexDigits == <<"0","1","2","3","4","5","6","7","8","9","a","b","c","d","e","f">>
\* ASCII 32..91, 93..95 and 97..126 in code order (no input holds a backslash
\* or a backquote).
Printable == <<" ","!","\"","#","$","%","&","'","(",")","*","+",",","-",".","/","0","1","2","3","4","5","6","7","8","9",":",";","<","=",">","?","@","A","B","C","D","E","F","G","H","I","J","K","L","M","N","O","P","Q","R","S","T","U","V","W","X","Y","Z","[">>
PrintableMid == <<"]","^","_">>
PrintableHigh == <<"a","b","c","d","e","f","g","h","i","j","k","l","m","n","o","p","q","r","s","t","u","v","w","x","y","z","{","|","}","~">>

IndexIn(s, c) == CHOOSE i \in 1..Len(s) : s[i] = c

\* ord(c) of the characters the inputs are written in.
Ord == [c \in Range(Printable) \cup Range(PrintableMid) \cup Range(PrintableHigh)
                \cup {"\n", "\t"} |->
          IF c = "\n" THEN 10
          ELSE IF c = "\t" THEN 9
          ELSE IF c \in Range(Printable) THEN 31 + IndexIn(Printable, c)
          ELSE IF c \in Range(PrintableMid) THEN 92 + IndexIn(PrintableMid, c)
          ELSE 96 + IndexIn(PrintableHigh, c)]

DigitSet == Range(Digits)
\* [0-9a-f] under re.IGNORECASE
HexSet == Range(HexDigits) \cup Range(<<"A","B","C","D","E","F">>)
LowerSet == Range(LowerLetters)
UpperSet == Range(UpperLetters)
\* [A-Za-z0-9._:/-]
EnumSet == LowerSet \cup UpperSet \cup DigitSet \cup Range(<<".","_",":","/","-">>)

IsDigit(c) == c \in DigitSet
IsHex(c) == c \in HexSet

\* str.lower(), str.upper() on one character.
LowerChar(c) == IF c \in UpperSet THEN LowerLetters[IndexIn(UpperLetters, c)] ELSE c
UpperChar(c) == IF c \in LowerSet THEN UpperLetters[IndexIn(LowerLetters, c)] ELSE c
lower(s) == [i \in 1..Len(s) |-> LowerChar(s[i])]
upper(s) == [i \in 1..Len(s) |-> UpperChar(s[i])]

startswith(s, p) == Len(s) >= Len(p) /\ SubSeq(s, 1, Len(p)) = p
endswith(s, p) == Len(s) >= Len(p) /\ SubSeq(s, Len(s) - Len(p) + 1, Len(s)) = p
\* p in s
contains(s, p) == \E i \in 1..(Len(s) - Len(p) + 1) : SubSeq(s, i, i + Len(p) - 1) = p

\* Whitespace of str.strip() / str.rstrip() among the characters used.
IsSpace(c) == c \in {" ", "\n", "\t"}

rstrip(s) ==
    IF \A i \in 1..Len(s) : IsSpace(s[i]) THEN <<>>
    ELSE SubSeq(s, 1, CHOOSE n \in 1..Len(s) :
                          ~IsSpace(s[n]) /\ \A j \in (n + 1)..Len(s) : IsSpace(s[j]))

lstrip(s) ==
    IF \A i \in 1..Len(s) : IsSpace(s[i]) THEN <<>>
    ELSE SubSeq(s, CHOOSE n \in 1..Len(s) :
                       ~IsSpace(s[n]) /\ \A j \in 1..(n - 1) : IsSpace(s[j]), Len(s))

strip(s) == lstrip(rstrip(s))

\* str(n) of a natural number (the len= field of an f-string).
RECURSIVE DecStr(_)
DecStr(n) == IF n < 10 THEN <<Digits[n + 1]>> ELSE DecStr(n \div 10) \o <<Digits[(n % 10) + 1]>>

\* ------------------------------------------------------------------ re

AllDigits(s, from, to) == \A i \in from..to : IsDigit(s[i])

\* A pattern ending in $ matches at the end of the string and just before a
\* newline that ends the string: s without that newline.
ChopNewline(s) == IF s /= <<>> /\ s[Len(s)] = "\n" THEN SubSeq(s, 1, Len(s) - 1) ELSE s

\* \d{4}-\d{2}-\d{2} at the start of s.
DatePrefix(s) ==
    /\ Len(s) >= 10
    /\ AllDigits(s, 1, 4) /\ s[5] = "-" /\ AllDigits(s, 6, 7) /\ s[8] = "-"
    /\ AllDigits(s, 9, 10)

IsoTsBody(s) ==
    /\ Len(s) >= 20
    /\ DatePrefix(s)
    /\ s[11] = "T" /\ AllDigits(s, 12, 13) /\ s[14] = ":" /\ AllDigits(s, 15, 16)
    /\ s[17] = ":" /\ AllDigits(s, 18, 19)
    /\ \/ Len(s) = 20 /\ s[20] = "Z"
       \/ Len(s) >= 22 /\ s[20] = "." /\ AllDigits(s, 21, Len(s) - 1) /\ s[Len(s)] = "Z"

DateBody(s) == Len(s) = 10 /\ DatePrefix(s)

UuidishBody(s) ==
    \E i \in 9..(Len(s) - 8) :
        /\ \A j \in 1..(i - 1) : IsHex(s[j])
        /\ s[i] = "-"
        /\ \A j \in (i + 1)..Len(s) : IsHex(s[j]) \/ s[j] = "-"

EnumBody(s) == s /= <<>> /\ \A i \in 1..Len(s) : s[i] \in EnumSet

ISO_TS_RE(s) == IsoTsBody(s) \/ IsoTsBody(ChopNewline(s))
DATE_RE(s) == DateBody(s) \/ DateBody(ChopNewline(s))
UUIDISH_RE(s) == UuidishBody(s) \/ UuidishBody(ChopNewline(s))
\* re.match(r"^[A-Za-z0-9._:/-]+$", value)
ENUM_RE(s) == EnumBody(s) \/ EnumBody(ChopNewline(s))

\* ------------------------------------------------------------- key sets

PATHISH_KEYS == {<<"c","w","d">>, <<"w","o","r","k","d","i","r">>, <<"p","a","t","h">>, <<"f","i","l","e">>, <<"f","i","l","e","P","a","t","h">>, <<"e","n","t","r","y","p","o","i","n","t","_","p","a","t","h">>}

URLISH_KEYS == {<<"r","e","p","o","s","i","t","o","r","y","_","u","r","l">>, <<"u","r","l">>, <<"h","r","e","f">>, <<"w","e","b","h","o","o","k","P","a","t","h">>}

TEXTISH_KEYS == {
    <<"m","e","s","s","a","g","e">>, <<"t","e","x","t">>, <<"c","o","n","t","e","n","t">>, <<"p","r","o","m","p","t">>, <<"j","u","s","t","i","f","i","c","a","t","i","o","n">>, <<"d","e","s","c","r","i","p","t","i","o","n">>,
    <<"b","o","d","y">>, <<"s","u","m","m","a","r","y">>, <<"q","u","e","s","t","i","o","n">>, <<"c","m","d">>, <<"i","n","s","t","r","u","c","t","i","o","n">>,
    <<"d","e","v","e","l","o","p","e","r","_","i","n","s","t","r","u","c","t","i","o","n","s">>, <<"u","s","e","r","_","i","n","s","t","r","u","c","t","i","o","n","s">>, <<"b","a","s","e","_","i","n","s","t","r","u","c","t","i","o","n","s">>, <<"i","n","p","u","t">>,
    <<"a","r","g","u","m","e","n","t","s">>, <<"o","u","t","p","u","t">>, <<"l","a","s","t","_","a","g","e","n","t","_","m","e","s","s","a","g","e">>, <<"n","e","w","_","s","t","r">>,
    <<"s","e","l","e","c","t","i","o","n","_","w","i","t","h","_","e","l","l","i","p","s","i","s">>}

\* The safe-enum rule without role.
SAFE_KEYS_NoRole == {<<"m","o","d","e","l">>, <<"m","o","d","e","l","_","p","r","o","v","i","d","e","r">>, <<"c","l","i","_","v","e","r","s","i","o","n">>, <<"t","y","p","e">>, <<"s","o","u","r","c","e">>,
                     <<"o","r","i","g","i","n","a","t","o","r">>}

\* The set literal of the safe-enum rule.
SAFE_KEYS == {<<"m","o","d","e","l">>, <<"m","o","d","e","l","_","p","r","o","v","i","d","e","r">>, <<"c","l","i","_","v","e","r","s","i","o","n">>, <<"t","y","p","e">>, <<"r","o","l","e">>,
              <<"s","o","u","r","c","e">>, <<"o","r","i","g","i","n","a","t","o","r">>}

\* The set literal of the identifier rule.
ID_KEYS == {<<"i","d">>, <<"s","e","s","s","i","o","n","_","i","d">>, <<"s","e","s","s","i","o","n","I","d">>}

\* ------------------------------------------------------------ JSON values

JStr(s) == [t |-> "str", s |-> s, items |-> <<>>]
\* A number, true, false or null, by its literal text.
JScalar(s) == [t |-> "scalar", s |-> s, items |-> <<>>]
JList(vs) == [t |-> "list", s |-> <<>>, items |-> [i \in 1..Len(vs) |-> [k |-> <<>>, v |-> vs[i]]]]
\* kvs: a sequence of <<key, value>>, in insertion order.
JDict(kvs) == [t |-> "dict", s |-> <<>>, items |-> [i \in 1..Len(kvs) |-> [k |-> kvs[i][1], v |-> kvs[i][2]]]]

Keys(items) == [i \in 1..Len(items) |-> items[i].k]

\* out[k] = v on a dict that keeps insertion order.
DictSet(items, k, v) ==
    IF \E i \in 1..Len(items) : items[i].k = k
    THEN [i \in 1..Len(items) |-> IF items[i].k = k THEN [k |-> k, v |-> v] ELSE items[i]]
    ELSE Append(items, [k |-> k, v |-> v])

\* obj.get(k) of a dict; the scalar null when the key is absent.
DictGet(items, k) ==
    IF \E i \in 1..Len(items) : items[i].k = k
    THEN items[CHOOSE i \in 1..Len(items) : items[i].k = k].v
    ELSE JScalar(<<"n","u","l","l">>)

\* ------------------------------------------------------------ Sanitizer

EmptyMap == [x \in {} |-> <<>>]

\* Sanitizer.__init__; log is the record of the calls made on the object.
NewSanitizer == [path_map |-> EmptyMap, url_map |-> EmptyMap, string_map |-> EmptyMap,
                 log |-> <<>>]

\* hashlib.sha256(s).hexdigest() is stood for by a deterministic digest of the
\* characters of s in lowercase hexadecimal: four polynomial lanes of 12 bits,
\* three hex digits each.  Callers take at most its first ten characters.
RECURSIVE PowMod(_, _)
PowMod(b, e) ==
    IF e = 0 THEN 1
    ELSE LET half == PowMod(b, e \div 2)
         IN  (((half * half) % 4096) * (IF e % 2 = 1 THEN b ELSE 1)) % 4096

\* The sum of ord(s[i]) * mult^(hi - i) over i in lo..hi, modulo 2^12.
RECURSIVE Poly(_, _, _, _)
Poly(s, lo, hi, mult) ==
    IF lo > hi THEN 0
    ELSE IF lo = hi THEN Ord[s[lo]]
    ELSE LET mid == (lo + hi) \div 2
         IN  (Poly(s, lo, mid, mult) * PowMod(mult, hi - mid) + Poly(s, mid + 1, hi, mult)) % 4096

\* h := (h * mult + ord(c)) mod 2^12 over the characters of s, from seed.
Lane(s, mult, seed) == (seed * PowMod(mult, Len(s)) + Poly(s, 1, Len(s), mult)) % 4096

Hex3(h) == <<HexDigits[(h \div 256) + 1], HexDigits[((h \div 16) % 16) + 1], HexDigits[(h % 16) + 1]>>

hexdigest(s) ==
    Hex3(Lane(s, 131, 7)) \o Hex3(Lane(s, 137, 11)) \o Hex3(Lane(s, 139, 13))
    \o Hex3(Lane(s, 149, 17))

_hash(s, n) == SubSeq(hexdigest(s), 1, n)

PathPrefix == <<"/","r","e","d","a","c","t","e","d","/","p","a","t","h","/">>
UrlPrefix == <<"r","e","d","a","c","t","e","d",":","/","/","u","r","l","/">>

\* Tokens numbered in the order of first sight instead of hashed.
sanitize_path_Counter(self, value) ==
    IF value \in DOMAIN self.path_map
    THEN [ret |-> self.path_map[value], self |-> self]
    ELSE LET token == PathPrefix \o DecStr(Cardinality(DOMAIN self.path_map) + 1)
         IN  [ret |-> token, self |-> [self EXCEPT !.path_map = (value :> token) @@ @]]

sanitize_path(self, value) ==
    IF value \in DOMAIN self.path_map
    THEN [ret |-> self.path_map[value], self |-> self]
    ELSE LET token == PathPrefix \o _hash(value, HashLen)
         IN  [ret |-> token, self |-> [self EXCEPT !.path_map = (value :> token) @@ @]]

\* The test that guards the body of sanitize_url.
UrlShaped(value) ==
    \/ startswith(value, <<"h","t","t","p","s",":","/","/">>)
    \/ startswith(value, <<"h","t","t","p",":","/","/">>)
    \/ startswith(value, <<"g","i","t","@">>)

sanitize_url(self, value) ==
    IF UrlShaped(value)
    THEN IF value \in DOMAIN self.url_map
         THEN [ret |-> self.url_map[value], self |-> self]
         ELSE LET token == UrlPrefix \o _hash(value, HashLen)
              IN  [ret |-> token, self |-> [self EXCEPT !.url_map = (value :> token) @@ @]]
    ELSE [ret |-> value, self |-> self]

sanitize_text(self, key, value) ==
    LET key_prefix == IF key /= <<>> THEN key ELSE <<"t","e","x","t">>
        digest == _hash(value, TextHashLen)
    IN  [ret |-> <<"[","R","E","D","A","C","T","E","D","_">> \o upper(key_prefix) \o <<" ","l","e","n","=">> \o DecStr(Len(value))
                 \o <<" ","s","h","a","=">> \o digest \o <<"]">>,
         self |-> self]

\* A call of a pseudonymizer method, entered in the object's log with the key
\* the value was classified under.
Traced(fn, key, value, r) ==
    [ret |-> r.ret,
     self |-> [r.self EXCEPT !.log = Append(@, [fn |-> fn, key |-> key, arg |-> value,
                                                ret |-> r.ret])]]

\* value.startswith("/Users/") or value.startswith("~/") or value.startswith("/")
PathLike(value) ==
    \/ startswith(value, <<"/","U","s","e","r","s","/">>)
    \/ startswith(value, <<"~","/">>)
    \/ startswith(value, <<"/">>)

\* "://" in value or value.startswith("git@")
UrlLike(value) == contains(value, <<":","/","/">>) \/ startswith(value, <<"g","i","t","@">>)

TimestampKey(key) ==
    endswith(lower(key), <<"t","i","m","e","s","t","a","m","p">>) \/ endswith(lower(key), <<"_","t","i","m","e","s","t","a","m","p">>)

\* The free-text rule tried before the timestamp rules.
sanitize_generic_string_TextFirst(self, key, value) ==
    IF key \in PATHISH_KEYS THEN Traced("sanitize_path", key, value, sanitize_path(self, value))
    ELSE IF key \in URLISH_KEYS THEN Traced("sanitize_url", key, value, sanitize_url(self, value))
    ELSE IF key \in TEXTISH_KEYS THEN sanitize_text(self, key, value)
    ELSE IF ISO_TS_RE(value) \/ DATE_RE(value) THEN [ret |-> value, self |-> self]
    ELSE IF TimestampKey(key) THEN [ret |-> value, self |-> self]
    ELSE IF key \in SAFE_KEYS THEN [ret |-> value, self |-> self]
    ELSE IF key \in ID_KEYS /\ UUIDISH_RE(value) THEN [ret |-> value, self |-> self]
    ELSE IF PathLike(value) THEN Traced("sanitize_path", key, value, sanitize_path(self, value))
    ELSE IF UrlLike(value) THEN Traced("sanitize_url", key, value, sanitize_url(self, value))
    ELSE IF Len(value) <= EnumMaxLen /\ ENUM_RE(value) THEN [ret |-> value, self |-> self]
    ELSE sanitize_text(self, IF key /= <<>> THEN key ELSE <<"s","t","r","i","n","g">>, value)

sanitize_generic_string(self, key, value) ==
    IF key \in PATHISH_KEYS THEN Traced("sanitize_path", key, value, sanitize_path(self, value))
    ELSE IF key \in URLISH_KEYS THEN Traced("sanitize_url", key, value, sanitize_url(self, value))
    ELSE IF ISO_TS_RE(value) \/ DATE_RE(value) THEN [ret |-> value, self |-> self]
    ELSE IF TimestampKey(key) THEN [ret |-> value, self |-> self]
    ELSE IF key \in SAFE_KEYS THEN [ret |-> value, self |-> self]
    ELSE IF key \in ID_KEYS /\ UUIDISH_RE(value) THEN [ret |-> value, self |-> self]
    ELSE IF key \in TEXTISH_KEYS THEN sanitize_text(self, key, value)
    ELSE IF PathLike(value) THEN Traced("sanitize_path", key, value, sanitize_path(self, value))
    ELSE IF UrlLike(value) THEN Traced("sanitize_url", key, value, sanitize_url(self, value))
    ELSE IF Len(value) <= EnumMaxLen /\ ENUM_RE(value) THEN [ret |-> value, self |-> self]
    ELSE sanitize_text(self, IF key /= <<>> THEN key ELSE <<"s","t","r","i","n","g">>, value)

RECURSIVE sanitize(_, _, _)
RECURSIVE sanitize_dict(_, _, _)
RECURSIVE sanitize_list(_, _, _, _)

\* for k, v in obj.items(): out[k] = self.sanitize(v, k)
sanitize_dict(self, items, out) ==
    IF items = <<>> THEN [ret |-> out, self |-> self]
    ELSE LET r == sanitize(self, items[1].v, items[1].k)
         IN  sanitize_dict(r.self, Tail(items), DictSet(out, items[1].k, r.ret))

\* The comprehension with a filter: only the strings of the list are kept.
RECURSIVE sanitize_list_StringsOnly(_, _, _, _)
sanitize_list_StringsOnly(self, items, parent_key, out) ==
    IF items = <<>> THEN [ret |-> out, self |-> self]
    ELSE IF items[1].v.t /= "str"
    THEN sanitize_list_StringsOnly(self, Tail(items), parent_key, out)
    ELSE LET r == sanitize(self, items[1].v, parent_key)
         IN  sanitize_list_StringsOnly(r.self, Tail(items), parent_key,
                                       Append(out, [k |-> <<>>, v |-> r.ret]))

\* [self.sanitize(v, parent_key) for v in obj]
sanitize_list(self, items, parent_key, out) ==
    IF items = <<>> THEN [ret |-> out, self |-> self]
    ELSE LET r == sanitize(self, items[1].v, parent_key)
         IN  sanitize_list(r.self, Tail(items), parent_key, Append(out, [k |-> <<>>, v |-> r.ret]))

sanitize(self, obj, parent_key) ==
    IF obj.t = "dict"
    THEN LET r == sanitize_dict(self, obj.items, <<>>)
         IN  [ret |-> [t |-> "dict", s |-> <<>>, items |-> r.ret], self |-> r.self]
    ELSE IF obj.t = "list"
    THEN LET r == sanitize_list(self, obj.items, parent_key, <<>>)
         IN  [ret |-> [t |-> "list", s |-> <<>>, items |-> r.ret], self |-> r.self]
    ELSE IF obj.t = "str"
    THEN LET r == sanitize_generic_string(self, parent_key, obj.s)
         IN  [ret |-> JStr(r.ret), self |-> r.self]
    ELSE [ret |-> obj, self |-> self]

\* ------------------------------------------------------------- the inputs

\* The outcome of json.loads when it raises JSONDecodeError.
JSONDecodeError == [t |-> "error", s |-> <<>>, items |-> <<>>]

JNull == JScalar(<<"n","u","l","l">>)

\* Lines of session files: the text of the line, and what json.loads makes
\* of that text.
Lines == <<
    [raw |-> <<" ","\n">>, doc |-> JSONDecodeError],
    [raw |-> <<"{","o","o","p","s","\n">>, doc |-> JSONDecodeError],
    [raw |-> <<"n","o","t"," ","j","s","o","n"," ","a","t"," ","a","l","l"," "," ","\n">>, doc |-> JSONDecodeError],
    [raw |-> <<"{","\"","t","y","p","e","\"",":","\"","u","s","e","r","_","m","e","s","s","a","g","e","\"",",","\"","c","w","d","\"",":","\"","/","U","s","e","r","s","/","a","l","i","c","e","/","p","r","o","j","\"",",","\"","c","o","n","t","e","n","t","\"",":","\"","f","i","x"," ","t","h","e"," ","b","u","g"," ","i","n"," ","p","a","r","s","e","r",".","p","y","\"","}","\n">>,
     doc |-> JDict(<< <<<<"t","y","p","e">>, JStr(<<"u","s","e","r","_","m","e","s","s","a","g","e">>)>>,
                      <<<<"c","w","d">>, JStr(<<"/","U","s","e","r","s","/","a","l","i","c","e","/","p","r","o","j">>)>>,
                      <<<<"c","o","n","t","e","n","t">>, JStr(<<"f","i","x"," ","t","h","e"," ","b","u","g"," ","i","n"," ","p","a","r","s","e","r",".","p","y">>)>> >>)],
    [raw |-> <<"{","\"","t","y","p","e","\"",":","\"","t","u","r","n","_","c","o","n","t","e","x","t","\"",",","\"","c","w","d","\"",":","\"","/","U","s","e","r","s","/","a","l","i","c","e","/","p","r","o","j","\"",",","\"","m","o","d","e","l","\"",":","\"","g","p","t","-","5","-","c","o","d","e","x","\"",",","\"","p","a","y","l","o","a","d","\"",":","{","\"","r","e","p","o","s","i","t","o","r","y","_","u","r","l","\"",":","\"","h","t","t","p","s",":","/","/","g","i","t","h","u","b",".","c","o","m","/","a","/","b","\"",",","\"","n","\"",":","4","2",",","\"","t","a","g","s","\"",":","[","\"","x"," ","y","\"",",","n","u","l","l","]","}","}","\n">>,
     doc |-> JDict(<< <<<<"t","y","p","e">>, JStr(<<"t","u","r","n","_","c","o","n","t","e","x","t">>)>>,
                      <<<<"c","w","d">>, JStr(<<"/","U","s","e","r","s","/","a","l","i","c","e","/","p","r","o","j">>)>>,
                      <<<<"m","o","d","e","l">>, JStr(<<"g","p","t","-","5","-","c","o","d","e","x">>)>>,
                      <<<<"p","a","y","l","o","a","d">>, JDict(<< <<<<"r","e","p","o","s","i","t","o","r","y","_","u","r","l">>, JStr(<<"h","t","t","p","s",":","/","/","g","i","t","h","u","b",".","c","o","m","/","a","/","b">>)>>,
                                             <<<<"n">>, JScalar(<<"4","2">>)>>,
                                             <<<<"t","a","g","s">>, JList(<<JStr(<<"x"," ","y">>), JNull>>)>> >>)>> >>)],
    [raw |-> <<"{","\"","t","i","m","e","s","t","a","m","p","\"",":","\"","2","0","2","6","-","0","2","-","2","3","T","1","0",":","0","0",":","0","0","Z","\"",",","\"","f","i","l","e","\"",":","\"","~","/","n","o","t","e","s",".","t","x","t","\"","}","\n">>,
     doc |-> JDict(<< <<<<"t","i","m","e","s","t","a","m","p">>, JStr(<<"2","0","2","6","-","0","2","-","2","3","T","1","0",":","0","0",":","0","0","Z">>)>>,
                      <<<<"f","i","l","e">>, JStr(<<"~","/","n","o","t","e","s",".","t","x","t">>)>> >>)],
    [raw |-> <<"{","\"","t","y","p","e","\"",":","\"","m","a","l","f","o","r","m","e","d","_","l","i","n","e","\"","}","\n">>,
     doc |-> JDict(<< <<<<"t","y","p","e">>, JStr(<<"m","a","l","f","o","r","m","e","d","_","l","i","n","e">>)>> >>)],
    [raw |-> <<"{","\"","t","y","p","e","\"",":","5",",","\"","n","o","t","e","\"",":","\"","f","t","p",":","/","/","f","i","l","e","s",".","e","x","a","m","p","l","e",".","c","o","m","/","x","\"","}","\n">>,
     doc |-> JDict(<< <<<<"t","y","p","e">>, JScalar(<<"5">>)>>,
                      <<<<"n","o","t","e">>, JStr(<<"f","t","p",":","/","/","f","i","l","e","s",".","e","x","a","m","p","l","e",".","c","o","m","/","x">>)>> >>)],
    [raw |-> <<"[","1",",","\"","a","\"","]","\n">>,
     doc |-> JList(<<JScalar(<<"1">>), JStr(<<"a">>)>>)]
>>

json_loads(line) == line.doc

\* String values passed to the Sanitizer's methods: empty, free text, paths,
\* URLs, strings that hold a scheme separator, timestamps, enum-like words, an
\* identifier, and 41 characters of the enum class.
SanValues == {
    <<>>, <<"f","i","x"," ","t","h","e"," ","b","u","g"," ","i","n"," ","p","a","r","s","e","r",".","p","y">>,
    <<"/","U","s","e","r","s","/","a","l","i","c","e","/","p","r","o","j">>, <<"~","/","n","o","t","e","s",".","t","x","t">>,
    <<"h","t","t","p","s",":","/","/","g","i","t","h","u","b",".","c","o","m","/","a","/","b">>, <<"g","i","t","@","g","i","t","h","u","b",".","c","o","m",":","a","/","b",".","g","i","t">>,
    <<"f","t","p",":","/","/","f","i","l","e","s",".","e","x","a","m","p","l","e",".","c","o","m","/","x">>, <<"s","e","e"," ","h","t","t","p","s",":","/","/","e","x","a","m","p","l","e",".","c","o","m">>,
    <<"2","0","2","6","-","0","2","-","2","3","T","1","0",":","0","0",":","0","0","Z">>, <<"2","0","2","6","-","0","2","-","2","3">>,
    <<"c","o","m","p","l","e","t","e","d">>, <<"0","1","2","3","a","b","c","d","-","4","5","6","7","-","8","9","a","b","-","c","d","e","f","-","0","1","2","3","4","5","6","7","8","9","a","b">>,
    <<"a","a","a","a","a","a","a","a","a","a","a","a","a","a","a","a","a","a","a","a","a","a","a","a","a","a","a","a","a","a","a","a","a","a","a","a","a","a","a","a","a">>}

\* The values passed under path-bearing and URL-bearing keys and to
\* sanitize_path and sanitize_url themselves.
TokenValues == {
    <<>>, <<"f","i","x"," ","t","h","e"," ","b","u","g"," ","i","n"," ","p","a","r","s","e","r",".","p","y">>, <<"/","U","s","e","r","s","/","a","l","i","c","e","/","p","r","o","j">>, <<"~","/","n","o","t","e","s",".","t","x","t">>,
    <<"h","t","t","p","s",":","/","/","g","i","t","h","u","b",".","c","o","m","/","a","/","b">>, <<"g","i","t","@","g","i","t","h","u","b",".","c","o","m",":","a","/","b",".","g","i","t">>, <<"2","0","2","6","-","0","2","-","2","3">>}

\* The values placed inside lists and nested records.
NestValues == {
    <<"f","i","x"," ","t","h","e"," ","b","u","g"," ","i","n"," ","p","a","r","s","e","r",".","p","y">>, <<"/","U","s","e","r","s","/","a","l","i","c","e","/","p","r","o","j">>, <<"h","t","t","p","s",":","/","/","g","i","t","h","u","b",".","c","o","m","/","a","/","b">>,
    <<"2","0","2","6","-","0","2","-","2","3">>}

\* Keys of the records passed to sanitize: every key the classifier names, keys
\* that end with timestamp, keys it does not know, and the empty key.
SanKeys ==
    PATHISH_KEYS \cup URLISH_KEYS \cup TEXTISH_KEYS \cup ID_KEYS
    \cup {<<"m","o","d","e","l">>, <<"m","o","d","e","l","_","p","r","o","v","i","d","e","r">>, <<"c","l","i","_","v","e","r","s","i","o","n">>, <<"t","y","p","e">>, <<"r","o","l","e">>,
          <<"s","o","u","r","c","e">>, <<"o","r","i","g","i","n","a","t","o","r">>, <<"t","i","m","e","s","t","a","m","p">>, <<"e","v","e","n","t","_","t","i","m","e","s","t","a","m","p">>, <<"s","t","a","r","t","T","i","m","e","s","t","a","m","p">>, <<"c","r","e","a","t","e","d","A","t">>,
          <<"s","t","a","t","u","s">>, <<"n","o","t","e">>, <<"p","a","y","l","o","a","d">>, <<>>}

ValuesUnder(k) == IF k \in PATHISH_KEYS \cup URLISH_KEYS THEN TokenValues ELSE SanValues

\* Arguments of sanitize: a string under a key, directly, as an element of a
\* list, and nested under another record and two lists; a string and a list at
\* the root; the documents of Lines.
SanObjs ==
    UNION {{JDict(<< <<k, JStr(v)>> >>) : v \in ValuesUnder(k)} : k \in SanKeys}
    \cup {JDict(<< <<k, JList(<<JStr(v), JScalar(<<"7">>)>>)>> >>) : k \in SanKeys, v \in NestValues}
    \cup {JDict(<< <<<<"p","a","y","l","o","a","d">>, JDict(<< <<<<"n">>, JScalar(<<"t","r","u","e">>)>>,
                                           <<k, JList(<<JList(<<JStr(v)>>), JNull>>)>> >>)>> >>) :
            k \in SanKeys, v \in NestValues}
    \cup {JStr(v) : v \in SanValues}
    \cup {JList(<<JStr(v), JScalar(<<"f","a","l","s","e">>)>>) : v \in NestValues}
    \cup {Lines[i].doc : i \in {j \in 1..Len(Lines) : Lines[j].doc.t \in {"dict", "list"}}}

\* ------------------------------------------------------------------ main

NoCall == JNull

\* main() up to the loop over session_files: sanitizer = Sanitizer(),
\* line_count_total = 0, type_counts = Counter().
Init ==
    /\ path_map = NewSanitizer.path_map
    /\ url_map = NewSanitizer.url_map
    /\ string_map = NewSanitizer.string_map
    /\ line_count_total = 0
    /\ type_counts = EmptyMap
    /\ files_in = <<>>
    /\ files_out = <<>>
    /\ pc = "files"
    /\ arg = NoCall
    /\ ret = NoCall
    /\ log = <<>>
    /\ ncalls = 0

\* The sanitizer object of the run, with an empty log for the next call.
Self == [path_map |-> path_map, url_map |-> url_map, string_map |-> string_map, log |-> <<>>]

\* The object after a call.
SetSelf(self) ==
    /\ path_map' = self.path_map
    /\ url_map' = self.url_map
    /\ string_map' = self.string_map
    /\ log' = self.log

\* Counter: c[k] += 1
Incr(c, k) == IF k \in DOMAIN c THEN [c EXCEPT ![k] = @ + 1] ELSE (k :> 1) @@ c

RECURSIVE SumLens(_)
SumLens(fs) == IF fs = <<>> THEN 0 ELSE Len(fs[1]) + SumLens(Tail(fs))

\* Lines read so far, over all files.
LinesRead == SumLens(files_in)

AppendLast(fs, x) == [fs EXCEPT ![Len(fs)] = Append(@, x)]

\* A Sanitizer made anew for each file.
OpenFile_NewSanitizer ==
    /\ pc = "files"
    /\ Len(files_in) < MaxFiles
    /\ files_in' = Append(files_in, <<>>)
    /\ files_out' = Append(files_out, <<>>)
    /\ pc' = "lines"
    /\ path_map' = EmptyMap
    /\ url_map' = EmptyMap
    /\ string_map' = EmptyMap
    /\ UNCHANGED <<line_count_total, type_counts, arg, ret, log, ncalls>>

\* for src in session_files: the next file is opened for reading, its
\* destination for writing.
OpenFile ==
    /\ pc = "files"
    /\ Len(files_in) < MaxFiles
    /\ files_in' = Append(files_in, <<>>)
    /\ files_out' = Append(files_out, <<>>)
    /\ pc' = "lines"
    /\ UNCHANGED <<path_map, url_map, string_map, line_count_total, type_counts,
                   arg, ret, log, ncalls>>

\* if not line.strip(): continue
ReadBlank(i) ==
    /\ pc = "lines"
    /\ LinesRead < MaxLines
    /\ strip(Lines[i].raw) = <<>>
    /\ files_in' = AppendLast(files_in, i)
    /\ UNCHANGED <<path_map, url_map, string_map, line_count_total, type_counts,
                   files_out, pc, arg, ret, log, ncalls>>

\* The json.dumps of the except branch.
MalformedRecord(text) ==
    JDict(<< <<<<"t","y","p","e">>, JStr(<<"m","a","l","f","o","r","m","e","d","_","l","i","n","e">>)>>, <<<<"r","a","w">>, JStr(text)>> >>)

\* The malformed line counted and dropped.
ReadMalformed_Dropped(i) ==
    /\ pc = "lines"
    /\ LinesRead < MaxLines
    /\ strip(Lines[i].raw) /= <<>>
    /\ json_loads(Lines[i]) = JSONDecodeError
    /\ line_count_total' = line_count_total + 1
    /\ type_counts' = Incr(type_counts, <<"m","a","l","f","o","r","m","e","d","_","l","i","n","e">>)
    /\ files_in' = AppendLast(files_in, i)
    /\ UNCHANGED <<path_map, url_map, string_map, files_out, pc, arg, ret, log, ncalls>>

\* json.loads(line) raises JSONDecodeError.
ReadMalformed(i) ==
    /\ pc = "lines"
    /\ LinesRead < MaxLines
    /\ strip(Lines[i].raw) /= <<>>
    /\ json_loads(Lines[i]) = JSONDecodeError
    /\ LET r == sanitize_text(Self, <<"r","a","w">>, rstrip(Lines[i].raw))
       IN  /\ SetSelf(r.self)
           /\ arg' = JStr(rstrip(Lines[i].raw))
           /\ ret' = JStr(r.ret)
           /\ files_out' = AppendLast(files_out, MalformedRecord(r.ret))
    /\ line_count_total' = line_count_total + 1
    /\ type_counts' = Incr(type_counts, <<"m","a","l","f","o","r","m","e","d","_","l","i","n","e">>)
    /\ files_in' = AppendLast(files_in, i)
    /\ UNCHANGED <<pc, ncalls>>

\* The line parses to a dict: it is counted by its type, sanitized and written.
ReadRecord(i) ==
    /\ pc = "lines"
    /\ LinesRead < MaxLines
    /\ strip(Lines[i].raw) /= <<>>
    /\ json_loads(Lines[i]) /= JSONDecodeError
    /\ json_loads(Lines[i]).t = "dict"
    /\ LET obj == json_loads(Lines[i])
           msg_type == DictGet(obj.items, <<"t","y","p","e">>)
           r == sanitize(Self, obj, <<>>)
       IN  /\ type_counts' = IF msg_type.t = "str"
                             THEN Incr(type_counts, msg_type.s)
                             ELSE Incr(type_counts, <<"<","m","i","s","s","i","n","g",">">>)
           /\ SetSelf(r.self)
           /\ arg' = obj
           /\ ret' = r.ret
           /\ files_out' = AppendLast(files_out, r.ret)
    /\ line_count_total' = line_count_total + 1
    /\ files_in' = AppendLast(files_in, i)
    /\ UNCHANGED <<pc, ncalls>>

\* The line parses to a list, a string, a number, true, false or null:
\* obj.get raises AttributeError, which nothing catches, and main() ends.
ReadNonObject(i) ==
    /\ pc = "lines"
    /\ LinesRead < MaxLines
    /\ strip(Lines[i].raw) /= <<>>
    /\ json_loads(Lines[i]) /= JSONDecodeError
    /\ json_loads(Lines[i]).t /= "dict"
    /\ line_count_total' = line_count_total + 1
    /\ files_in' = AppendLast(files_in, i)
    /\ pc' = "crashed"
    /\ UNCHANGED <<path_map, url_map, string_map, type_counts, files_out,
                   arg, ret, log, ncalls>>

\* for line in f_in: the file has no more lines.
EndOfFile ==
    /\ pc = "lines"
    /\ pc' = "files"
    /\ UNCHANGED <<path_map, url_map, string_map, line_count_total, type_counts,
                   files_in, files_out, arg, ret, log, ncalls>>

\* session_files has no more files: the manifest is written from
\* line_count_total and type_counts, and main() returns 0.
Finish ==
    /\ pc = "files"
    /\ pc' = "done"
    /\ UNCHANGED <<path_map, url_map, string_map, line_count_total, type_counts,
                   files_in, files_out, arg, ret, log, ncalls>>

Next ==
    \/ OpenFile
    \/ \E i \in 1..Len(Lines) : ReadBlank(i)
    \/ \E i \in 1..Len(Lines) : ReadMalformed(i)
    \/ \E i \in 1..Len(Lines) : ReadRecord(i)
    \/ \E i \in 1..Len(Lines) : ReadNonObject(i)
    \/ EndOfFile
    \/ Finish

Spec == Init /\ [][Next]_vars

\* ------------------------------------------- the Sanitizer's methods, called

\* A Sanitizer after construction, before any call.
InitSan ==
    /\ path_map = NewSanitizer.path_map
    /\ url_map = NewSanitizer.url_map
    /\ string_map = NewSanitizer.string_map
    /\ line_count_total = 0
    /\ type_counts = EmptyMap
    /\ files_in = <<>>
    /\ files_out = <<>>
    /\ pc = "idle"
    /\ arg = NoCall
    /\ ret = NoCall
    /\ log = <<>>
    /\ ncalls = 0

Call_sanitize(obj) ==
    /\ pc = "idle"
    /\ ncalls < MaxCalls
    /\ LET r == sanitize(Self, obj, <<>>)
       IN  /\ SetSelf(r.self)
           /\ arg' = obj
           /\ ret' = r.ret
    /\ pc' = "returned"
    /\ ncalls' = ncalls + 1
    /\ UNCHANGED <<line_count_total, type_counts, files_in, files_out>>

Call_sanitize_path(value) ==
    /\ pc = "idle"
    /\ ncalls < MaxCalls
    /\ LET r == Traced("sanitize_path", <<>>, value, sanitize_path(Self, value))
       IN  /\ SetSelf(r.self)
           /\ arg' = JStr(value)
           /\ ret' = JStr(r.ret)
    /\ pc' = "returned"
    /\ ncalls' = ncalls + 1
    /\ UNCHANGED <<line_count_total, type_counts, files_in, files_out>>

Call_sanitize_url(value) ==
    /\ pc = "idle"
    /\ ncalls < MaxCalls
    /\ LET r == Traced("sanitize_url", <<>>, value, sanitize_url(Self, value))
       IN  /\ SetSelf(r.self)
           /\ arg' = JStr(value)
           /\ ret' = JStr(r.ret)
    /\ pc' = "returned"
    /\ ncalls' = ncalls + 1
    /\ UNCHANGED <<line_count_total, type_counts, files_in, files_out>>

\* The caller has the result; the object waits for its next call.
Return ==
    /\ pc = "returned"
    /\ pc' = "idle"
    /\ arg' = NoCall
    /\ ret' = NoCall
    /\ log' = <<>>
    /\ UNCHANGED <<path_map, url_map, string_map, line_count_total, type_counts,
                   files_in, files_out, ncalls>>

NextSan ==
    \/ \E obj \in SanObjs : Call_sanitize(obj)
    \/ \E value \in TokenValues : Call_sanitize_path(value)
    \/ \E value \in TokenValues : Call_sanitize_url(value)
    \/ Return

SpecSan == InitSan /\ [][NextSan]_vars

\* ------------------------------------------------------------ properties

\* x and y have the same shape: the same keys in the same order, the same
\* lengths, a string where there is a string, and the same scalar.
RECURSIVE SameShape(_, _)
SameShape(x, y) ==
    /\ x.t = y.t
    /\ IF x.t \in {"dict", "list"}
       THEN /\ Keys(x.items) = Keys(y.items)
            /\ \A i \in 1..Len(x.items) : SameShape(x.items[i].v, y.items[i].v)
       ELSE IF x.t = "str" THEN TRUE
       ELSE x = y

\* The string leaves of x, each with the key it lies under (the key of the
\* nearest enclosing dict member, the empty key at the root) and the string at
\* the same place of y, which has the shape of x.
RECURSIVE Leaves(_, _, _)
RECURSIVE LeavesOfItems(_, _, _, _)
LeavesOfItems(xs, ys, key, isDict) ==
    IF xs = <<>> THEN <<>>
    ELSE Leaves(xs[1].v, ys[1].v, IF isDict THEN xs[1].k ELSE key)
         \o LeavesOfItems(Tail(xs), Tail(ys), key, isDict)

Leaves(x, y, key) ==
    IF x.t \in {"dict", "list"} THEN LeavesOfItems(x.items, y.items, key, x.t = "dict")
    ELSE IF x.t = "str" THEN <<[key |-> key, orig |-> x.s, out |-> y.s]>>
    ELSE <<>>

\* The string leaves of the last call's argument with their results.
CallLeaves == IF SameShape(arg, ret) THEN Range(Leaves(arg, ret, <<>>)) ELSE {}

\* [REDACTED_<KEY> len=<N> sha=<digest>]
Placeholder(key, value) ==
    <<"[","R","E","D","A","C","T","E","D","_">> \o upper(key) \o <<" ","l","e","n","=">> \o DecStr(Len(value)) \o <<" ","s","h","a","=">>
    \o _hash(value, TextHashLen) \o <<"]">>

IsHexToken(prefix, s) ==
    /\ Len(s) = Len(prefix) + HashLen
    /\ SubSeq(s, 1, Len(prefix)) = prefix
    /\ \A i \in (Len(prefix) + 1)..Len(s) : s[i] \in Range(HexDigits)

\* C6: a call of sanitize returns a value of the shape of its argument: the
\* same keys in the same order, the same lengths and order of sequences, a
\* string for each string, each other scalar unchanged.
C6_StructurePreserved == pc = "returned" => SameShape(arg, ret)

\* A record that nests a record, lists and scalars has been sanitized, and a
\* string of it replaced.
C6_Witness ==
    /\ pc = "returned"
    /\ arg.t = "dict"
    /\ \E i \in 1..Len(arg.items) :
          /\ arg.items[i].v.t = "dict"
          /\ \E j \in 1..Len(arg.items[i].v.items) : arg.items[i].v.items[j].v.t = "list"
          /\ \E j \in 1..Len(arg.items[i].v.items) : arg.items[i].v.items[j].v.t = "scalar"
    /\ ret /= arg

\* The keys of the verbatim preservation set.
VerbatimKeys == {<<"t","y","p","e">>, <<"r","o","l","e">>, <<"m","o","d","e","l">>, <<"m","o","d","e","l","_","p","r","o","v","i","d","e","r">>, <<"c","l","i","_","v","e","r","s","i","o","n">>}

\* C7: a string under one of the keys type, role, model, model_provider,
\* cli_version, at any depth, is returned as it is, whatever it holds; no
\* pseudonymizer method is called for it, and a call whose strings all lie
\* under these keys leaves the token maps as they were.
C7_VerbatimPreserved ==
    [][pc' = "returned" =>
          /\ \A l \in CallLeaves' : l.key \in VerbatimKeys => l.out = l.orig
          /\ \A i \in 1..Len(log') : log'[i].key \notin VerbatimKeys
          /\ (\A l \in CallLeaves' : l.key \in VerbatimKeys) =>
                 /\ path_map' = path_map
                 /\ url_map' = url_map
                 /\ string_map' = string_map]_vars

\* A URL under the key role, inside two lists of a nested record, has been
\* returned by a Sanitizer whose maps already hold tokens.
C7_Witness ==
    /\ pc = "returned"
    /\ path_map /= EmptyMap
    /\ url_map /= EmptyMap
    /\ arg.t = "dict" /\ arg.items[1].v.t = "dict"
    /\ \E l \in CallLeaves :
          l.key = <<"r","o","l","e">> /\ l.orig = <<"h","t","t","p","s",":","/","/","g","i","t","h","u","b",".","c","o","m","/","a","/","b">> /\ l.out = l.orig

TimestampShaped(value) == ISO_TS_RE(value) \/ DATE_RE(value)

\* C2 as stated: every string under a free-text key, at any depth, directly or
\* as an element of a sequence, comes out as the redaction placeholder
\* [REDACTED_<KEY> len=<N> sha=<digest>] and never as the original value.
C2_RedactionCoverage ==
    pc = "returned" =>
        \A l \in CallLeaves :
            l.key \in TEXTISH_KEYS => l.out = Placeholder(l.key, l.orig) /\ l.out /= l.orig

\* C2 as amended: every string under a free-text key that does not match the
\* ISO timestamp pattern or the date pattern comes out as the redaction
\* placeholder and not as the original value; one that matches is returned
\* as it is.
C2_RedactionCoverageAmended ==
    pc = "returned" =>
        \A l \in CallLeaves :
            l.key \in TEXTISH_KEYS =>
                IF TimestampShaped(l.orig)
                THEN l.out = l.orig
                ELSE l.out = Placeholder(l.key, l.orig) /\ l.out /= l.orig

\* A path under the key arguments, inside two lists of a nested record, has
\* been redacted.
C2_Witness ==
    /\ pc = "returned"
    /\ arg.t = "dict" /\ arg.items[1].v.t = "dict"
    /\ \E l \in CallLeaves :
          /\ l.key = <<"a","r","g","u","m","e","n","t","s">>
          /\ l.orig = <<"/","U","s","e","r","s","/","a","l","i","c","e","/","p","r","o","j">>
          /\ l.out = <<"[","R","E","D","A","C","T","E","D","_","A","R","G","U","M","E","N","T","S"," ","l","e","n","=","1","7"," ","s","h","a","=">> \o _hash(l.orig, TextHashLen) \o <<"]">>

\* The value is classified by rule 9 or a later one: no rule on the key
\* applies, and the value is neither a timestamp nor a path.
ReachesUrlHeuristic(key, value) ==
    /\ key \notin PATHISH_KEYS \cup URLISH_KEYS \cup SAFE_KEYS \cup ID_KEYS \cup TEXTISH_KEYS
    /\ ~endswith(lower(key), <<"t","i","m","e","s","t","a","m","p">>)
    /\ ~TimestampShaped(value)
    /\ ~(startswith(value, <<"/">>) \/ startswith(value, <<"~","/">>))

\* C9 as stated: a string that reaches the URL heuristic and holds :// or
\* starts with git@ comes out as a URL token, redacted://url/ and ten hex
\* digits, recorded in the URL map, and not as the original value.
C9_UrlHeuristic ==
    pc = "returned" =>
        \A l \in CallLeaves :
            (ReachesUrlHeuristic(l.key, l.orig)
                /\ (contains(l.orig, <<":","/","/">>) \/ startswith(l.orig, <<"g","i","t","@">>))) =>
                /\ IsHexToken(UrlPrefix, l.out)
                /\ l.orig \in DOMAIN url_map
                /\ url_map[l.orig] = l.out
                /\ l.out /= l.orig

Count(c, k) == IF k \in DOMAIN c THEN c[k] ELSE 0

RECURSIVE SumCounts(_)
SumCounts(c) ==
    IF DOMAIN c = {} THEN 0
    ELSE LET k == CHOOSE x \in DOMAIN c : TRUE
         IN  c[k] + SumCounts([x \in DOMAIN c \ {k} |-> c[x]])

IsBlankLine(i) == strip(Lines[i].raw) = <<>>
FailsToParse(i) == ~IsBlankLine(i) /\ json_loads(Lines[i]) = JSONDecodeError

\* The non-blank lines among ids, in order.
NonBlank(ids) == SelectSeq(ids, LAMBDA i : ~IsBlankLine(i))

RECURSIVE Flat(_)
Flat(fs) == IF fs = <<>> THEN <<>> ELSE fs[1] \o Flat(Tail(fs))

\* The step reads line i of the current file.
Reads(i) == pc = "lines" /\ files_in /= <<>> /\ files_in' = AppendLast(files_in, i)

MapKept(m, n) == \A v \in DOMAIN m : v \in DOMAIN n /\ n[v] = m[v]

\* C1: an entry of path_map or url_map is never changed or removed, across
\* lines and files; every call of sanitize_path, and every call of
\* sanitize_url on a URL-shaped value, returns the token the map holds for the
\* value since the first call on it, and a first call returns the token it
\* stores.
C1_TokenIdempotence ==
    [][/\ MapKept(path_map, path_map')
       /\ MapKept(url_map, url_map')
       /\ \A i \in 1..Len(log') :
             LET e == log'[i]
                 before == IF e.fn = "sanitize_path" THEN path_map ELSE url_map
                 after == IF e.fn = "sanitize_path" THEN path_map' ELSE url_map'
             IN  (e.fn = "sanitize_path" \/ UrlShaped(e.arg)) =>
                     /\ e.arg \in DOMAIN after
                     /\ e.ret = after[e.arg]
                     /\ e.arg \in DOMAIN before => e.ret = before[e.arg]]_vars

\* The second file of a run repeats a path and a URL first seen in its first
\* file, and the calls of the last line returned the tokens of the maps.
C1_Witness ==
    /\ Len(files_in) = 2
    /\ files_in[1] = <<4, 5>>
    /\ files_in[2] = <<5>>
    /\ Len(log) = 2
    /\ log[1].ret = path_map[<<"/","U","s","e","r","s","/","a","l","i","c","e","/","p","r","o","j">>]
    /\ log[2].ret = url_map[<<"h","t","t","p","s",":","/","/","g","i","t","h","u","b",".","c","o","m","/","a","/","b">>]

\* C3: a non-blank line that fails to parse does not end the run: the loop
\* stays at its next line, exactly one record {type: malformed_line, raw:
\* <placeholder of the line's text>} is appended to the output, the
\* malformed_line count grows by one and the token maps stay as they were.
C3_MalformedLineSurvival ==
    [][\A i \in 1..Len(Lines) :
          (Reads(i) /\ FailsToParse(i)) =>
              /\ pc' = "lines"
              /\ files_out' = AppendLast(files_out,
                    JDict(<< <<<<"t","y","p","e">>, JStr(<<"m","a","l","f","o","r","m","e","d","_","l","i","n","e">>)>>,
                             <<<<"r","a","w">>, JStr(Placeholder(<<"r","a","w">>, rstrip(Lines[i].raw)))>> >>))
              /\ Count(type_counts', <<"m","a","l","f","o","r","m","e","d","_","l","i","n","e">>) = Count(type_counts, <<"m","a","l","f","o","r","m","e","d","_","l","i","n","e">>) + 1
              /\ line_count_total' = line_count_total + 1
              /\ path_map' = path_map
              /\ url_map' = url_map
              /\ string_map' = string_map]_vars

\* A malformed line has been read after a record that filled the maps, and
\* its placeholder is the last line of the output.
C3_Witness ==
    /\ pc = "lines"
    /\ path_map /= EmptyMap
    /\ files_in[Len(files_in)] = <<4, 3>>
    /\ Len(files_out[Len(files_out)]) = 2
    /\ DictGet(files_out[Len(files_out)][2].items, <<"r","a","w">>)
          = JStr(<<"[","R","E","D","A","C","T","E","D","_","R","A","W"," ","l","e","n","=","1","5"," ","s","h","a","=">> \o _hash(<<"n","o","t"," ","j","s","o","n"," ","a","t"," ","a","l","l">>, TextHashLen) \o <<"]">>)

\* The record written for a line: a malformed_line record for a line that
\* fails to parse, a document of the line's shape otherwise.
Corresponds(i, out) ==
    IF FailsToParse(i)
    THEN /\ out.t = "dict"
         /\ Keys(out.items) = <<<<"t","y","p","e">>, <<"r","a","w">>>>
         /\ out.items[1].v = JStr(<<"m","a","l","f","o","r","m","e","d","_","l","i","n","e">>)
    ELSE SameShape(json_loads(Lines[i]), out)

\* C4 as stated: whatever the lines (blank, not JSON, JSON of any kind), the
\* run does not end before the end of the file, and the output holds exactly
\* one line per non-blank line read, in the same order.
C4_LineCorrespondence ==
    /\ pc /= "crashed"
    /\ \A f \in 1..Len(files_in) :
          LET nb == NonBlank(files_in[f])
          IN  /\ Len(files_out[f]) = Len(nb)
              /\ \A j \in 1..Len(nb) : Corresponds(nb[j], files_out[f][j])

\* C5 as stated: the malformed_line tally is the number of lines that failed
\* to parse; no line that parsed adds to it.
C5_MalformedTally ==
    Count(type_counts, <<"m","a","l","f","o","r","m","e","d","_","l","i","n","e">>) = Len(SelectSeq(Flat(files_in), FailsToParse))

\* The output of a line by a Sanitizer that has seen nothing else.
FreshOutput(i) ==
    IF FailsToParse(i)
    THEN MalformedRecord(sanitize_text(NewSanitizer, <<"r","a","w">>, rstrip(Lines[i].raw)).ret)
    ELSE sanitize(NewSanitizer, json_loads(Lines[i]), <<>>).ret

\* C8: the output written for a line is the output a fresh Sanitizer gives
\* for that line alone, whatever was processed before it and in whatever
\* order; the token a map holds for a value is the token a fresh Sanitizer
\* assigns it.
C8_OrderIndependence ==
    /\ \A f \in 1..Len(files_out) :
          \A j \in 1..Len(files_out[f]) :
              files_out[f][j] = FreshOutput(NonBlank(files_in[f])[j])
    /\ \A v \in DOMAIN path_map : path_map[v] = sanitize_path(NewSanitizer, v).ret
    /\ \A v \in DOMAIN url_map : url_map[v] = sanitize_url(NewSanitizer, v).ret

\* Two records that share a path were written in one order in the first file
\* and in the other order in the second.
C8_Witness ==
    /\ Len(files_out) = 2
    /\ files_in[1] = <<6, 4>>
    /\ files_in[2] = <<4>>
    /\ files_out[2][1] = files_out[1][2]
    /\ Cardinality(DOMAIN path_map) = 2

\* C10 as stated: the total of non-blank lines is the sum of the per-type
\* counts, malformed_line and <missing> included.
C10_StatisticsConsistency == line_count_total = SumCounts(type_counts)

====
